---- MODULE Spec2Model ----
(***************************************************************************)
(* Model of src/error_handler.py: the AWS Lambda that handles a failed     *)
(* AWS Batch job, publishes the failure and returns the IDL licenses the   *)
(* job had reserved to the pool counters kept in the SSM parameter store.  *)
(*                                                                         *)
(* One invocation of error_handler is one process.  Every action is one    *)
(* call of the invocation to an external service (SNS or SSM) together     *)
(* with the local code that runs up to the next call.                      *)
(***************************************************************************)
EXTENDS Integers, FiniteSets, Sequences, TLC

\* ------------------------------------------------------------------ bounds
\* Number of invocations of the lambda (deliveries of failure events).
NumProcs == 2
\* Number of distinct unique ids (runs) a failure event can carry.
NumRuns == 2
\* Largest number a reservation record holds initially.
MaxRes == 1
\* Largest number a pool counter holds initially.
MaxPool == 1

Procs == 1..NumProcs
UniqueIds == 1..NumRuns
\* The failed jobs of the model share one prefix and one job queue.
Datasets == {"aqua"}
Kinds == {"ql", "r", "floating"}

\* ------------------------------------------------------------ python values
\* A Python value of the licence code is a str holding a decimal number (what
\* get_parameter returns) or an int (the 0 check_existence substitutes).
StrV(n) == <<"str", n>>
IntV(n) == <<"int", n>>
\* int(x): parses a str, is the identity on an int.
PyInt(x) == x[2]
\* str(n) of an int n.
PyStr(n) == StrV(n)
\* x != 0: a str never equals the int 0, whatever digits it holds.
PyNeZero(x) == ~(x[1] = "int" /\ x[2] = 0)

\* ------------------------------------------------------------ parameter names
\* f"{prefix}-idl-{dataset}-{unique_id}-{kind}"
RecordName(ds, u, kind) == <<"idl", ds, u, kind>>
\* f"{prefix}-idl-{dataset}"
DatasetPoolName(ds) == <<"idl", ds>>
\* f"{prefix}-idl-floating"
FloatingPoolName == <<"idl", "floating">>
\* f"{prefix}-idl-retrieving-license"
LockName == <<"idl-retrieving-license">>

RecordNames == {RecordName(ds, u, k) : ds \in Datasets, u \in UniqueIds, k \in Kinds}
PoolNames == {DatasetPoolName(ds) : ds \in Datasets} \cup {FloatingPoolName}

VARIABLES
  store,     \* the SSM parameter store: a function from the names that exist
  pc,        \* each invocation's position in error_handler / return_licenses
  uid,       \* unique_id of the invocation's event (0 before delivery)
  dataset,   \* dataset of the invocation's event
  lic,       \* quicklook_lic, refined_lic, floating_lic of return_licenses
  current,   \* current / current_floating of write_licenses
  outcome,   \* how the invocation ended
  dict,      \* idl_license_dict handed to print_final_log
  raised,    \* the error raised out of return_licenses ("none" when none was)
  ops,       \* history: the store calls of the invocation that succeeded
  faults,    \* number of store calls that have failed for the store's own reasons
  initial,   \* history: the store as it was at the start
  snap,      \* history: the store as it was when the invocation started
  raced,     \* history: two invocations had both read the lock free at a claim
  command,   \* the container command handed to get_unique_id
  unique_id  \* what get_unique_id returned for it

vars == <<store, pc, uid, dataset, lic, current, outcome, dict, raised, ops, faults,
          initial, snap, raced, command, unique_id>>
\* What get_unique_id works on; the steps of the licence protocol leave it alone.
parsing == <<command, unique_id>>

\* ------------------------------------------------------------------ store
Exists(name) == name \in DOMAIN store
\* put_parameter(Name, Value, Overwrite=True)
PutParameter(s, name, value) == [n \in DOMAIN s \cup {name} |-> IF n = name THEN value ELSE s[n]]
\* Mutant of DeleteParameters: nothing is deleted.
DeleteNothing(s, names) == s
\* delete_parameters(Names): names that do not exist are reported, not raised.
DeleteParameters(s, names) == [n \in DOMAIN s \ names |-> s[n]]

\* What a call can come back with.  ParameterNotFound is raised by get_parameter
\* exactly for a name that does not exist; TooManyUpdates is the store's answer to
\* a put_parameter that collides with another update; any call can fail otherwise.
GetResults(name) == (IF Exists(name) THEN {"ok"} ELSE {"ParameterNotFound"})
                    \cup {"OtherClientError"}
PutResults == {"ok", "TooManyUpdates", "OtherClientError"}
DeleteResults == {"ok", "OtherClientError"}
\* Counts the calls that failed for the store's own reasons, not for what the
\* store holds.
Count(res) == faults' = IF res \in {"TooManyUpdates", "OtherClientError"} THEN faults + 1 ELSE faults

\* ------------------------------------------------------------------ dicts
NoDict == [located |-> "unset", floating |-> IntV(0), ql |-> IntV(0), r |-> IntV(0)]
\* The all-zero dictionary of lines 52, 56 and 227.
ZeroDict == [located |-> "None", floating |-> IntV(0), ql |-> IntV(0), r |-> IntV(0)]
\* The dictionary of line 223.
ReturnedDict(l) == [located |-> "names", floating |-> l["floating"], ql |-> l["ql"], r |-> l["r"]]

NoLic == [k \in Kinds |-> IntV(0)]

\* ------------------------------------------------------------------ init
\* A parameter that does not exist, in the choice of an initial store.
Absent == <<"absent">>
\* The store holding the records rc, the pool counters pl and the lock lk, less
\* the ones marked absent.
MkStore(rc, pl, lk) ==
  [n \in {x \in DOMAIN rc : rc[x] # Absent} \cup {x \in DOMAIN pl : pl[x] # Absent}
          \cup (IF lk = "absent" THEN {} ELSE {LockName})
     |-> IF n \in DOMAIN rc THEN rc[n] ELSE IF n \in DOMAIN pl THEN pl[n] ELSE lk]
\* The records of run 1; no other run has reserved anything in the stores of
\* the sequential specifications.
FirstRunNames == {RecordName(ds, 1, k) : ds \in Datasets, k \in Kinds}
\* The store is one of those holding records of the names rn with one of the
\* values rv, pool counters with one of the values pv, and the lock lv.
InitStore(rn, rv, pv, lv) ==
  \E rc \in [rn -> rv], pl \in [PoolNames -> pv], lk \in lv : store = MkStore(rc, pl, lk)

\* No invocation has started.
InitProcs ==
  /\ pc = [i \in Procs |-> "idle"]
  /\ uid = [i \in Procs |-> 0]
  /\ dataset = [i \in Procs |-> "none"]
  /\ lic = [i \in Procs |-> NoLic]
  /\ current = [i \in Procs |-> StrV(0)]
  /\ outcome = [i \in Procs |-> "none"]
  /\ dict = [i \in Procs |-> NoDict]
  /\ ops = [i \in Procs |-> {}]
  /\ raised = [i \in Procs |-> "none"]
  /\ faults = 0
  /\ initial = store
  /\ snap = [i \in Procs |-> <<>>]
  /\ raced = FALSE
\* The specifications of the licence protocol take the unique id of an event as
\* given: no command is parsed in them.
Unparsed == <<"unparsed">>
InitRest == InitProcs /\ command = <<>> /\ unique_id = Unparsed

\* The concurrent specification: a run's record exists, with the positive number
\* the producer reserved, or does not; the pool counters and the lock exist.
Init ==
  /\ InitStore(RecordNames, {Absent} \cup {StrV(k) : k \in 1..MaxRes},
               {StrV(k) : k \in 0..MaxPool}, {"True", "False"})
  /\ InitRest
\* The sequential specification: the records of run 1 hold any number, zero
\* included, or do not exist; the pool counters and the lock exist.
InitSeq ==
  /\ InitStore(FirstRunNames, {Absent} \cup {StrV(k) : k \in 0..MaxRes},
               {StrV(k) : k \in 0..MaxPool}, {"True", "False"})
  /\ InitRest
\* The specification of one invocation: as before, and a pool counter or the
\* lock may be missing (a misconfiguration).
InitSolo ==
  /\ InitStore(FirstRunNames, {Absent} \cup {StrV(k) : k \in 0..MaxRes},
               {Absent} \cup {StrV(k) : k \in 0..MaxPool}, {"absent", "True", "False"})
  /\ InitRest

\* ------------------------------------------------------------------ control
\* Where an invocation goes next, and with what result.
Go(i, p) == [pc |-> p, outcome |-> outcome[i], dict |-> dict[i]]
End(oc, d) == [pc |-> "done", outcome |-> oc, dict |-> d]
Ctl(i, c) ==
  /\ pc' = [pc EXCEPT ![i] = c.pc]
  /\ outcome' = [outcome EXCEPT ![i] = c.outcome]
  /\ dict' = [dict EXCEPT ![i] = c.dict]
Did(i, what) == ops' = [ops EXCEPT ![i] = @ \cup what]

\* Mutant of ErrorHandlerExcept: the TooManyUpdates branch is missing.
ErrorHandlerExceptNoTooMany(i, e) ==
  IF e = "ParameterNotFound" THEN End("ParameterNotFound", ZeroDict)
  ELSE End("Exit1", dict[i])

\* Mutant of ErrorHandlerExcept: every error of the store is logged and
\* recovered from; nothing exits.
ErrorHandlerExceptRecoversAll(i, e) ==
  IF e = "ParameterNotFound" THEN End("ParameterNotFound", ZeroDict)
  ELSE End("TooManyUpdates", ZeroDict)

\* error_handler's except clause around return_licenses (return_licenses itself
\* re-raises, line 230): the two known errors end in the all-zero dictionary and
\* the final log, anything else in sys.exit(1).
ErrorHandlerExcept(i, e) ==
  IF e = "ParameterNotFound" THEN End("ParameterNotFound", ZeroDict)
  ELSE IF e = "TooManyUpdates" THEN End("TooManyUpdates", ZeroDict)
  ELSE End("Exit1", dict[i])

\* A store call of return_licenses raised e: nothing else of it runs.
Raise(i, e) ==
  /\ Ctl(i, ErrorHandlerExcept(i, e))
  /\ raised' = [raised EXCEPT ![i] = e]
  /\ Count(e)
  /\ UNCHANGED <<store, uid, dataset, lic, current, ops, snap, raced, initial, parsing>>

\* ------------------------------------------------------------------ actions
\* publish_event: list_topics or publish raising a ClientError ends in
\* sys.exit(1); when no topic matches TOPIC, topic_arn is unbound at line 161 and
\* the invocation dies of the NameError.
PublishResults == {"ok", "list_topics_failed", "no_topic", "publish_failed"}
PublishEvent(i, res) ==
  IF res = "ok" THEN Go(i, "check_ql")
  ELSE IF res = "no_topic" THEN End("SnsCrash", dict[i])
  ELSE End("SnsExit1", dict[i])

\* error_handler, lines 18-43: an event is delivered; its command, job name and
\* job queue give unique_id, prefix and dataset; the failure is logged and
\* published, and the invocation sleeps its seeded 1 to 10 seconds.
Invoke(i) ==
  /\ pc[i] = "idle"
  /\ \E u \in UniqueIds, ds \in Datasets :
       /\ uid' = [uid EXCEPT ![i] = u]
       /\ dataset' = [dataset EXCEPT ![i] = ds]
  /\ snap' = [snap EXCEPT ![i] = store]
  /\ \E res \in PublishResults : Ctl(i, PublishEvent(i, res))
  /\ UNCHANGED <<store, lic, current, raised, ops, faults, raced, initial, parsing>>

\* check_existence: the value of the parameter, or the int 0 when get_parameter
\* raised ParameterNotFound.
CheckExistenceValue(res, name) == IF res = "ok" THEN store[name] ELSE IntV(0)

\* Line 195.
HasLicenses(l) == PyNeZero(l["ql"]) \/ PyNeZero(l["r"]) \/ PyNeZero(l["floating"])

KindAt(p) == IF p = "check_ql" THEN "ql" ELSE IF p = "check_r" THEN "r" ELSE "floating"
AfterCheck(p) == IF p = "check_ql" THEN "check_r" ELSE "check_floating"

\* Mutant of CheckExistence: check_existence re-raises ParameterNotFound like
\* any other error.
CheckExistenceRaisesAll(i) ==
  /\ pc[i] \in {"check_ql", "check_r", "check_floating"}
  /\ LET kind == KindAt(pc[i])
         name == RecordName(dataset[i], uid[i], kind)
     IN \E res \in GetResults(name) :
          IF res # "ok"
          THEN /\ Ctl(i, ErrorHandlerExcept(i, res))
               /\ raised' = [raised EXCEPT ![i] = res]
               /\ Did(i, {"return_licenses"})
               /\ Count(res)
               /\ UNCHANGED <<store, uid, dataset, lic, current, snap, raced, initial, parsing>>
          ELSE LET l == [lic[i] EXCEPT ![kind] = store[name]]
               IN /\ lic' = [lic EXCEPT ![i] = l]
                  /\ Did(i, {"return_licenses", "recordRead"})
                  /\ Ctl(i, IF kind # "floating" THEN Go(i, AfterCheck(pc[i]))
                            ELSE IF HasLicenses(l) THEN Go(i, "poll")
                            ELSE End("NothingToReturn", ZeroDict))
                  /\ UNCHANGED <<store, raised, uid, dataset, current, faults, snap, raced, initial, parsing>>

\* return_licenses, lines 190-195 and 225-227: one of the three reads, and after
\* the third the test whether there is anything to return.
CheckExistence(i) ==
  /\ pc[i] \in {"check_ql", "check_r", "check_floating"}
  /\ LET kind == KindAt(pc[i])
         name == RecordName(dataset[i], uid[i], kind)
     IN \E res \in GetResults(name) :
          IF res = "OtherClientError"
          THEN /\ Ctl(i, ErrorHandlerExcept(i, res))
               /\ raised' = [raised EXCEPT ![i] = res]
               /\ Did(i, {"return_licenses"})
               /\ Count(res)
               /\ UNCHANGED <<store, uid, dataset, lic, current, snap, raced, initial, parsing>>
          ELSE LET l == [lic[i] EXCEPT ![kind] = CheckExistenceValue(res, name)]
               IN /\ lic' = [lic EXCEPT ![i] = l]
                  /\ Did(i, {"return_licenses", "recordRead"})
                  /\ Ctl(i, IF kind # "floating" THEN Go(i, AfterCheck(pc[i]))
                            ELSE IF HasLicenses(l) THEN Go(i, "poll")
                            ELSE End("NothingToReturn", ZeroDict))
                  /\ UNCHANGED <<store, raised, uid, dataset, current, faults, snap, raced, initial, parsing>>

\* Mutant of Poll: the lock is read as free and written to, but hold_license is
\* not called before write_licenses.
PollSkipsClaim(i) ==
  /\ pc[i] = "poll"
  /\ \E res \in GetResults(LockName) :
       IF res # "ok" THEN Raise(i, res)
       ELSE /\ IF store[LockName] = "True"
               THEN Ctl(i, Go(i, "poll")) /\ Did(i, {"lockRead", "sawBusy"})
               ELSE Ctl(i, Go(i, "read_dataset")) /\ Did(i, {"lockRead", "sawFree"})
            /\ UNCHANGED <<store, raised, uid, dataset, lic, current, faults, snap, raced, initial, parsing>>

\* Mutant of Poll: the lock is read once and its value ignored (no loop).
PollIgnoresBusy(i) ==
  /\ pc[i] = "poll"
  /\ \E res \in GetResults(LockName) :
       IF res # "ok" THEN Raise(i, res)
       ELSE /\ Ctl(i, Go(i, "hold"))
            /\ Did(i, IF store[LockName] = "True" THEN {"lockRead", "sawBusy"}
                      ELSE {"lockRead", "sawFree"})
            /\ UNCHANGED <<store, raised, uid, dataset, lic, current, faults, snap, raced, initial, parsing>>

\* return_licenses, lines 198-202: read the lock; "True" means sleep 3 s and
\* read again, anything else leaves the loop.
Poll(i) ==
  /\ pc[i] = "poll"
  /\ \E res \in GetResults(LockName) :
       IF res # "ok" THEN Raise(i, res)
       ELSE /\ IF store[LockName] = "True"
               THEN Ctl(i, Go(i, "poll")) /\ Did(i, {"lockRead", "sawBusy"})
               ELSE Ctl(i, Go(i, "hold")) /\ Did(i, {"lockRead", "sawFree"})
            /\ UNCHANGED <<store, raised, uid, dataset, lic, current, faults, snap, raced, initial, parsing>>

\* Mutant of HoldLicense: the lock is written "True" whatever on_hold is.
HoldLicenseAlwaysTrue(s, on_hold) == PutParameter(s, LockName, "True")
\* hold_license: put_parameter of the lock.
HoldLicense(s, on_hold) == PutParameter(s, LockName, on_hold)

\* return_licenses, line 205: claim the lock.
Claim(i) ==
  /\ pc[i] = "hold"
  /\ \E res \in PutResults :
       IF res # "ok" THEN Raise(i, res)
       ELSE /\ store' = HoldLicense(store, "True")
            /\ Ctl(i, Go(i, "read_dataset"))
            /\ Did(i, {"lockTrue"})
            /\ raced' = (raced \/ \E j \in Procs \ {i} : pc[j] = "hold")
            /\ UNCHANGED <<raised, uid, dataset, lic, current, faults, snap, initial, parsing>>

\* Mutant of DatasetTotal: the refined count is left out of the sum.
DatasetTotalDropsRefined(l, cur) == PyInt(l["ql"]) + PyInt(cur)

\* Mutant of FloatingTotal: the quicklook count is added to the floating pool.
FloatingTotalAddsQuicklook(l, cur) == PyInt(l["ql"]) + PyInt(cur)

\* write_licenses, lines 276 and 288.
DatasetTotal(l, cur) == PyInt(l["ql"]) + PyInt(l["r"]) + PyInt(cur)
FloatingTotal(l, cur) == PyInt(l["floating"]) + PyInt(cur)

PoolAt(i, p) == IF p \in {"read_dataset", "write_dataset"} THEN DatasetPoolName(dataset[i])
                ELSE FloatingPoolName
\* Mutant of TotalAt: the pool counter is written back as it was read, without
\* the run's counts.
TotalAtKeepsCurrent(i, p) == PyInt(current[i])
TotalAt(i, p) == IF p = "write_dataset" THEN DatasetTotal(lic[i], current[i])
                 ELSE FloatingTotal(lic[i], current[i])

\* write_licenses, lines 275 and 287: read a pool counter.
ReadPool(i) ==
  /\ pc[i] \in {"read_dataset", "read_floating"}
  /\ \E res \in GetResults(PoolAt(i, pc[i])) :
       IF res # "ok" THEN Raise(i, res)
       ELSE /\ current' = [current EXCEPT ![i] = store[PoolAt(i, pc[i])]]
            /\ Ctl(i, Go(i, IF pc[i] = "read_dataset" THEN "write_dataset" ELSE "write_floating"))
            /\ Did(i, {"poolRead"})
            /\ UNCHANGED <<store, raised, uid, dataset, lic, faults, snap, raced, initial, parsing>>

\* write_licenses, lines 276-285 and 288-297: write the sum back when it is
\* positive.
WritePool(i) ==
  /\ pc[i] \in {"write_dataset", "write_floating"}
  /\ LET total == TotalAt(i, pc[i])
         next == IF pc[i] = "write_dataset" THEN "read_floating" ELSE "delete"
     IN IF total > 0
        THEN \E res \in PutResults :
               IF res # "ok" THEN Raise(i, res)
               ELSE /\ store' = PutParameter(store, PoolAt(i, pc[i]), PyStr(total))
                    /\ Ctl(i, Go(i, next))
                    /\ Did(i, {"poolWrite"})
                    /\ UNCHANGED <<raised, uid, dataset, lic, current, faults, snap, raced, initial, parsing>>
        ELSE /\ Ctl(i, Go(i, next))
             /\ UNCHANGED <<store, raised, uid, dataset, lic, current, ops, faults, snap, raced, initial, parsing>>

\* Mutant of OwnRecords: only the records that held a count are deleted (the
\* ones lines 216-218 log).
OwnNonZeroRecords(i) == {RecordName(dataset[i], uid[i], k) : k \in {x \in Kinds : PyInt(lic[i][x]) # 0}}

\* The three names of lines 212-214.
OwnRecords(i) == {RecordName(dataset[i], uid[i], k) : k \in Kinds}

\* return_licenses, lines 211-218: delete the run's three records.
Delete(i) ==
  /\ pc[i] = "delete"
  /\ \E res \in DeleteResults :
       IF res # "ok" THEN Raise(i, res)
       ELSE /\ store' = DeleteParameters(store, OwnRecords(i))
            /\ Ctl(i, Go(i, "release"))
            /\ Did(i, {"delete"})
            /\ UNCHANGED <<raised, uid, dataset, lic, current, faults, snap, raced, initial, parsing>>

\* return_licenses, lines 221-223, and print_final_log: release the lock and
\* report what was returned.
Release(i) ==
  /\ pc[i] = "release"
  /\ \E res \in PutResults :
       IF res # "ok" THEN Raise(i, res)
       ELSE /\ store' = HoldLicense(store, "False")
            /\ Ctl(i, End("Returned", ReturnedDict(lic[i])))
            /\ Did(i, {"lockFalse"})
            /\ UNCHANGED <<raised, uid, dataset, lic, current, faults, snap, raced, initial, parsing>>

\* The steps of return_licenses.
ReturnLicenses(i) ==
  \/ CheckExistence(i)
  \/ Poll(i)
  \/ Claim(i)
  \/ ReadPool(i)
  \/ WritePool(i)
  \/ Delete(i)
  \/ Release(i)

\* Invocations of the lambda run concurrently, one store call at a time.
Next == \E i \in Procs : Invoke(i) \/ ReturnLicenses(i)
Spec == Init /\ [][Next]_vars

\* Deliveries one after the other: an event is delivered only when the
\* invocations of the earlier ones have ended.
InvokeAlone(i) == (\A j \in Procs : j < i => pc[j] = "done") /\ Invoke(i)
NextSeq == \E i \in Procs : InvokeAlone(i) \/ ReturnLicenses(i)
SpecSeq == InitSeq /\ [][NextSeq]_vars

\* One delivery: the invocation runs with no other one before or beside it.
InvokeFirst(i) == i = 1 /\ Invoke(i)
NextSolo == \E i \in Procs : InvokeFirst(i) \/ ReturnLicenses(i)
SpecSolo == InitSolo /\ [][NextSolo]_vars

\* The store answers every call of the invocation: no call fails for a reason of
\* the store's own, and none is raised out of return_licenses.
Answered(i) == raised'[i] = "none"
Unfailing(i) ==
  \/ CheckExistence(i) /\ Answered(i)
  \/ Poll(i) /\ Answered(i)
  \/ Claim(i) /\ Answered(i)
  \/ ReadPool(i) /\ Answered(i)
  \/ WritePool(i) /\ Answered(i)
  \/ Delete(i) /\ Answered(i)
  \/ Release(i) /\ Answered(i)
\* As Init, with the lock free at the start and the pool counters at one value
\* (no step of the locking depends on what a pool counter holds).
InitFree ==
  /\ InitStore(RecordNames, {Absent} \cup {StrV(k) : k \in 1..MaxRes},
               {StrV(MaxPool)}, {"False"})
  /\ InitRest
\* Every delivered event is handled and every invocation keeps running: it is
\* not stopped for ever before its next call.
Fairness == \A i \in Procs : WF_vars(Invoke(i) \/ Unfailing(i))
NextLive == \E i \in Procs : Invoke(i) \/ Unfailing(i)
SpecLive == InitFree /\ [][NextLive]_vars /\ Fairness

\* The host ends the invocation where it stands (the wall-clock budget of the
\* lambda has run out): nothing of lines 18-64 runs any more, no except clause
\* and no release of the lock included.
Abort(i) ==
  /\ pc[i] \notin {"idle", "done"}
  /\ Ctl(i, End("Aborted", dict[i]))
  /\ UNCHANGED <<store, uid, dataset, lic, current, raised, ops, faults, snap, raced, initial, parsing>>
NextAbort == \E i \in Procs : Invoke(i) \/ Unfailing(i) \/ Abort(i)
SpecAbort == InitFree /\ [][NextAbort]_vars /\ Fairness

\* error_handler, lines 18-43, once more for the same event: the failure event
\* of a run whose invocation ended after a ParameterNotFound or TooManyUpdates
\* is delivered a second time, after that invocation.  The new invocation
\* starts from nothing but the event: no local of the first one is kept.
Redeliver(i) ==
  /\ pc[i] = "done" /\ raised[i] \in {"ParameterNotFound", "TooManyUpdates"}
  /\ "redelivered" \notin ops[i]
  /\ snap' = [snap EXCEPT ![i] = store]
  /\ lic' = [lic EXCEPT ![i] = NoLic]
  /\ current' = [current EXCEPT ![i] = StrV(0)]
  /\ raised' = [raised EXCEPT ![i] = "none"]
  /\ ops' = [ops EXCEPT ![i] = {"redelivered"}]
  /\ \E res \in PublishResults :
       Ctl(i, [pc |-> PublishEvent(i, res).pc,
               outcome |-> IF res = "ok" THEN "none" ELSE PublishEvent(i, res).outcome,
               dict |-> NoDict])
  /\ UNCHANGED <<store, uid, dataset, faults, raced, initial, parsing>>
\* The events of different runs: the first delivery to invocation i is that of
\* run i.
InvokeOwn(i) == Invoke(i) /\ uid'[i] = i
\* Concurrent invocations for different runs, store failures, and second
\* deliveries after failed attempts; the lock is free at the start.
NextRetry == \E i \in Procs : InvokeOwn(i) \/ ReturnLicenses(i) \/ Redeliver(i)
SpecRetry == InitFree /\ [][NextRetry]_vars

\* ------------------------------------------------------------ get_unique_id
\* A str is the sequence of its characters.  The arguments of the commands are
\* made of the pieces that matter to get_unique_id: "json", ".", "_" and a
\* letter.
Json == <<"j", "s", "o", "n">>
Pieces == {Json, <<".">>, <<"_">>, <<"a">>}
\* Largest number of pieces of an argument, and of arguments of a command.
MaxPieces == 4
MaxArgs == 2
RECURSIVE Concat(_)
Concat(ps) == IF ps = <<>> THEN <<>> ELSE Head(ps) \o Concat(Tail(ps))
Args == UNION {{Concat(ps) : ps \in [1..n -> Pieces]} : n \in 0..MaxPieces}
\* event['detail']['container']['command']: a non-empty list of str.
Commands == UNION {[1..n -> Args] : n \in 1..MaxArgs}

\* sub in s
PyIn(sub, s) == \E k \in 1..(Len(s) - Len(sub) + 1) : SubSeq(s, k, k + Len(sub) - 1) = sub
\* s.split(c): the parts of s between the occurrences of c.
RECURSIVE PySplit(_, _)
PySplit(s, c) ==
  IF \A k \in 1..Len(s) : s[k] # c THEN <<s>>
  ELSE LET k == CHOOSE x \in 1..Len(s) : s[x] = c /\ \A m \in 1..(x - 1) : s[m] # c
       IN <<SubSeq(s, 1, k - 1)>> \o PySplit(SubSeq(s, k + 1, Len(s)), c)
\* The loop of lines 175-177, from argument k on, with unique_id being u.
RECURSIVE ForArg(_, _, _)
ForArg(cmd, k, u) ==
  IF k > Len(cmd) THEN u
  ELSE ForArg(cmd, k + 1,
              IF PyIn(Json, cmd[k])
              THEN LET parts == PySplit(PySplit(cmd[k], ".")[1], "_") IN parts[Len(parts)]
              ELSE u)
\* get_unique_id, lines 171-182.
get_unique_id(cmd) ==
  LET u == ForArg(cmd, 1, <<>>)
  IN IF u = <<>> THEN cmd[1] ELSE u

\* error_handler, line 26: the command of an event is parsed.
GetUniqueId ==
  /\ unique_id = Unparsed
  /\ unique_id' = get_unique_id(command)
  /\ UNCHANGED <<store, pc, uid, dataset, lic, current, outcome, dict, raised, ops, faults,
                 initial, snap, raced, command>>
\* The specification of get_unique_id alone: any command, and no store.
InitUid == command \in Commands /\ unique_id = Unparsed /\ store = <<>> /\ InitProcs
NextUid == GetUniqueId
SpecUid == InitUid /\ [][NextUid]_vars

\* ------------------------------------------------------------------ claims
\* What the claims speak of.
Done(i) == pc[i] = "done"
\* The invocation is the last one delivered so far.
Latest(i) == \A j \in Procs : j > i => pc[j] = "idle"
\* The count store s holds for kind k of the run of invocation i (0 when the
\* record does not exist).
Reserved(s, i, k) ==
  IF RecordName(dataset[i], uid[i], k) \in DOMAIN s
  THEN PyInt(s[RecordName(dataset[i], uid[i], k)]) ELSE 0
\* The invocation's calls that read or write the lock, a pool counter, or delete.
LockOps == {"lockRead", "sawBusy", "sawFree", "lockTrue", "lockFalse"}
PoolOps == {"poolRead", "poolWrite"}
\* return_licenses ran to its end: nothing was raised out of it.
Returns == {"Returned", "NothingToReturn"}

AllZero(s, i) == \A k \in Kinds : Reserved(s, i, k) = 0

\* C1: an invocation that has set the lock to "True" sets it back to "False"
\* before it returns, on the success path and on the "nothing tracked" path
\* taken after a ParameterNotFound of a later store call.  (Stated for the
\* runs that had reserved something, and with the lock's value on return.)
C1_LockReleasedBeforeReturn ==
  \A i \in Procs :
    (/\ Done(i) /\ Latest(i) /\ ~AllZero(snap[i], i)
     /\ "lockTrue" \in ops[i] /\ outcome[i] \in {"Returned", "ParameterNotFound"})
      => "lockFalse" \in ops[i] /\ store[LockName] = "False"

\* C2: a run whose three records are each absent or hold zero gets
\* NothingToReturn, and its invocation writes nothing, deletes nothing and
\* neither reads nor writes the lock.
C2_ZeroReservationTouchesNothing ==
  \A i \in Procs :
    (pc[i] # "idle" /\ Latest(i) /\ AllZero(snap[i], i))
      => /\ ops[i] \cap (LockOps \cup PoolOps \cup {"delete"}) = {}
         /\ store = snap[i]
         /\ (Done(i) /\ outcome[i] \in Returns) => outcome[i] = "NothingToReturn"

\* C3 as claimed: no two invocations are at once between their own claim of
\* the lock and their own release.
Section == {"read_dataset", "write_dataset", "read_floating", "write_floating",
            "delete", "release"}
InSection(i) == pc[i] \in Section
C3_MutualExclusion ==
  \A i, j \in Procs : i # j => ~(InSection(i) /\ InSection(j))

\* C3 as amended: every change of a pool counter is made by an invocation that
\* has written "True" to the lock and has not yet written "False".
C3_WritesInsideOwnSection ==
  [][\A i \in Procs :
       (pc'[i] # pc[i] /\ \E n \in PoolNames \cap DOMAIN store : store'[n] # store[n])
         => ("lockTrue" \in ops[i] /\ "lockFalse" \notin ops[i])]_vars

\* C3's case: a pool counter has been written by an invocation while another
\* one is inside its own section.
C3_WitnessOverlappingWrite ==
  \E i, j \in Procs : i # j /\ InSection(i) /\ InSection(j) /\ "poolWrite" \in ops[i]

RECURSIVE Sum(_, _)
Sum(f, S) == IF S = {} THEN 0
             ELSE LET x == CHOOSE y \in S : TRUE IN f[x] + Sum(f, S \ {x})
HasReturned(i) == Done(i) /\ outcome[i] = "Returned"
\* Every invocation has ended and none of them after an error of the store.
AllEnded == \A i \in Procs : Done(i) /\ outcome[i] \in Returns \cup {"SnsExit1", "SnsCrash"}
\* What the invocations that report Returned had read for the pool.
MergedInto(n) ==
  Sum([i \in Procs |->
         IF ~HasReturned(i) THEN 0
         ELSE IF n = FloatingPoolName THEN PyInt(lic[i]["floating"])
         ELSE IF n = DatasetPoolName(dataset[i]) THEN PyInt(lic[i]["ql"]) + PyInt(lic[i]["r"])
         ELSE 0], Procs)

\* C4: the lost update can happen, and it happens only by the race: once every
\* invocation has ended without an error, no pool counter exceeds its initial
\* value plus what the invocations returned, and one that is smaller means two
\* invocations had both read the lock as "False" before either wrote "True".
C4_LostUpdateOnlyByRace ==
  AllEnded =>
    \A n \in PoolNames :
      /\ PyInt(store[n]) <= PyInt(initial[n]) + MergedInto(n)
      /\ PyInt(store[n]) < PyInt(initial[n]) + MergedInto(n) => raced

\* C4's case: two invocations for different runs both report Returned after the
\* race, and the dataset pool is smaller than its initial value plus the counts
\* both runs had reserved.
C4_WitnessLostUpdate ==
  /\ raced /\ HasReturned(1) /\ HasReturned(2) /\ uid[1] # uid[2]
  /\ \E ds \in Datasets :
       /\ dataset[1] = ds /\ dataset[2] = ds
       /\ PyInt(store[DatasetPoolName(ds)]) <
            PyInt(initial[DatasetPoolName(ds)])
              + Reserved(initial, 1, "ql") + Reserved(initial, 1, "r")
              + Reserved(initial, 2, "ql") + Reserved(initial, 2, "r")

\* C5: an invocation writes the lock, writes a pool counter or deletes records
\* only after it has itself read the lock as "False", and reads or writes a
\* pool counter only after it has written "True" to the lock ...
C5_Order ==
  \A i \in Procs :
    /\ ops[i] \cap {"lockTrue", "lockFalse", "poolWrite", "delete"} # {} => "sawFree" \in ops[i]
    /\ ops[i] \cap PoolOps # {} => "lockTrue" \in ops[i]
\* ... and a poll that reads "True" only leads back to the poll (or out of the
\* invocation, when the read fails).
C5_BusyPoll ==
  \A i \in Procs :
    (pc[i] = "poll" /\ LockName \in DOMAIN store /\ store[LockName] = "True")
      => /\ pc'[i] = "poll" \/ (pc'[i] = "done" /\ raised'[i] # "none")
         /\ ops'[i] \subseteq ops[i] \cup {"lockRead", "sawBusy"}
C5_LockAcquisitionOrdering == []C5_Order /\ [][C5_BusyPoll]_vars

\* C5's case: an invocation has polled a busy lock and later written a pool
\* counter.
C5_WitnessWaitedThenWrote ==
  \E i \in Procs : {"sawBusy", "sawFree", "lockTrue", "poolWrite"} \subseteq ops[i]

\* The records of the invocation's run are gone.
RecordsDeleted(i) == \A k \in Kinds : RecordName(dataset[i], uid[i], k) \notin DOMAIN store
\* The pool counter n holds what it held when invocation i started, plus add.
PoolGrewBy(i, n, add) ==
  n \in DOMAIN snap[i] /\ n \in DOMAIN store /\ store[n] = StrV(PyInt(snap[i][n]) + add)

\* C6: a reclaim that runs alone and meets no failure, for a run whose counts
\* are not all zero, reports Returned with the run's counts, adds ql + r to the
\* dataset pool and floating to the floating pool, deletes the three records
\* and leaves the lock "False".
C6_SoloReclaim ==
  \A i \in Procs :
    (Done(i) /\ Latest(i) /\ ~AllZero(snap[i], i) /\ outcome[i] \in Returns)
      => /\ outcome[i] = "Returned"
         /\ PoolGrewBy(i, DatasetPoolName(dataset[i]),
                       Reserved(snap[i], i, "ql") + Reserved(snap[i], i, "r"))
         /\ PoolGrewBy(i, FloatingPoolName, Reserved(snap[i], i, "floating"))
         /\ RecordsDeleted(i)
         /\ store[LockName] = "False"
         /\ dict[i].located = "names"
         /\ \A k \in Kinds : PyInt(dict[i][k]) = Reserved(snap[i], i, k)

\* C6's case: a run with all three kinds reserved has been returned.
C6_WitnessReturnedAll ==
  \E i \in Procs :
    /\ Done(i) /\ Latest(i) /\ outcome[i] = "Returned"
    /\ \A k \in Kinds : Reserved(snap[i], i, k) > 0
    /\ PyInt(store[DatasetPoolName(dataset[i])]) > PyInt(snap[i][DatasetPoolName(dataset[i])]) + 1

PoolOf(i, k) == IF k = "floating" THEN FloatingPoolName ELSE DatasetPoolName(dataset[i])
OtherPool(i, k) == IF k = "floating" THEN DatasetPoolName(dataset[i]) ELSE FloatingPoolName
OnlyKind(s, i, k) == Reserved(s, i, k) > 0 /\ \A k2 \in Kinds \ {k} : Reserved(s, i, k2) = 0

\* C7: when exactly one kind of a run holds a non-zero count, a successful
\* reclaim running alone adds exactly that count to the kind's pool counter,
\* leaves the value of the other pool counter as it was, and deletes all three
\* records.
C7_SingleKindReclaim ==
  \A i \in Procs : \A k \in Kinds :
    (HasReturned(i) /\ Latest(i) /\ OnlyKind(snap[i], i, k))
      => /\ PoolGrewBy(i, PoolOf(i, k), Reserved(snap[i], i, k))
         /\ PoolGrewBy(i, OtherPool(i, k), 0)
         /\ RecordsDeleted(i)

\* C7's case: the run had one non-zero record and a record holding zero.
C7_WitnessOneKind ==
  \E i \in Procs : \E k \in Kinds :
    /\ HasReturned(i) /\ Latest(i) /\ OnlyKind(snap[i], i, k)
    /\ \E k2 \in Kinds \ {k} : RecordName(dataset[i], uid[i], k2) \in DOMAIN snap[i]

SameRun(i, j) == uid[i] = uid[j] /\ dataset[i] = dataset[j]

\* C8: a second call for a run, made after a first call that reported
\* Returned, takes no lock, leaves both pool counters as the first call left
\* them, and reports NothingToReturn.
C8_SecondCallReturnsNothing ==
  \A i, j \in Procs :
    (i < j /\ HasReturned(i) /\ pc[j] # "idle" /\ Latest(j) /\ SameRun(i, j))
      => /\ ops[j] \cap (LockOps \cup PoolOps \cup {"delete"}) = {}
         /\ \A n \in PoolNames : PoolGrewBy(j, n, 0)
         /\ (Done(j) /\ "return_licenses" \in ops[j] /\ raised[j] = "none")
              => outcome[j] = "NothingToReturn"

\* C8's case: the second call has ended after a first call that had added to
\* the dataset pool.
C8_WitnessSecondCall ==
  \E i, j \in Procs :
    /\ i < j /\ HasReturned(i) /\ SameRun(i, j)
    /\ Done(j) /\ outcome[j] = "NothingToReturn"
    /\ PyInt(store[DatasetPoolName(dataset[i])]) > PyInt(initial[DatasetPoolName(dataset[i])])

\* The records of the run are what they were when invocation i started.
RecordsKept(i) ==
  \A k \in Kinds :
    LET n == RecordName(dataset[i], uid[i], k)
    IN n \in DOMAIN snap[i] => n \in DOMAIN store /\ store[n] = snap[i][n]

Checks == {"check_ql", "check_r", "check_floating"}

\* C10: a read of a reservation record that fails with ParameterNotFound gives
\* the int 0 and the reclaim goes on with the next kind (after the third, with
\* the test of line 195); a read that fails otherwise is raised out of
\* return_licenses and gives no count.
C10_CheckStep ==
  \A i \in Procs :
    (pc[i] \in Checks /\ pc'[i] # pc[i])
      => LET kind == KindAt(pc[i])
             name == RecordName(dataset[i], uid[i], kind)
         IN IF faults' # faults
            THEN raised'[i] = "OtherClientError" /\ pc'[i] = "done" /\ lic'[i] = lic[i]
            ELSE /\ raised'[i] = "none"
                 /\ lic'[i][kind] = IF name \in DOMAIN store THEN store[name] ELSE IntV(0)
                 /\ IF kind # "floating" THEN pc'[i] = AfterCheck(pc[i])
                    ELSE \/ pc'[i] = "poll"
                         \/ pc'[i] = "done" /\ outcome'[i] = "NothingToReturn"
C10_AbsentRecordReadsAsZero == [][C10_CheckStep]_vars

\* C10's case: the quicklook record was missing, 0 stood in for it, and the
\* refined record was read next.
C10_WitnessAbsentThenRead ==
  \E i \in Procs :
    /\ pc[i] = "check_floating"
    /\ RecordName(dataset[i], uid[i], "ql") \notin DOMAIN snap[i]
    /\ lic[i]["ql"] = IntV(0) /\ lic[i]["r"] = StrV(1)

\* What error_handler recovers from (lines 49 and 53).
Recovered == {"ParameterNotFound", "TooManyUpdates"}

\* C11: when a store call of return_licenses has raised, the invocation exits
\* non-zero exactly when the error is neither ParameterNotFound nor
\* TooManyUpdates; for those two it ends normally with the all-zero dictionary
\* in the final log.
C11_FailureClassification ==
  \A i \in Procs :
    (Done(i) /\ raised[i] # "none")
      => /\ outcome[i] = "Exit1" <=> raised[i] \notin Recovered
         /\ raised[i] \in Recovered => outcome[i] = raised[i] /\ dict[i] = ZeroDict

\* C11's case: one invocation has exited non-zero after an error of the store
\* that came after its claim of the lock.
C11_WitnessFatalAfterClaim ==
  \E i \in Procs :
    /\ Done(i) /\ raised[i] = "OtherClientError" /\ outcome[i] = "Exit1"
    /\ "lockTrue" \in ops[i]

\* C12: whatever publish_event comes back with, the invocation goes on to
\* return_licenses: no invocation ends without having called it.
C12_NotificationDoesNotGate ==
  \A i \in Procs : Done(i) => "return_licenses" \in ops[i]

\* C13: an abort of an invocation between its write of "True" and its write of
\* "False" does not leave the lock "True" for ever: an invocation in the
\* polling loop eventually leaves it.
C13_LockNotWedged ==
  \A j \in Procs : (pc[j] = "poll") ~> (pc[j] # "poll")

\* The arguments of the command that contain "json".
JsonArgs(cmd) == {k \in 1..Len(cmd) : PyIn(Json, cmd[k])}
\* The part of s before its first c, and the part after its last c (all of s
\* when it has no c).
Places(s, c) == {k \in 1..Len(s) : s[k] = c}
BeforeFirst(s, c) ==
  IF Places(s, c) = {} THEN s
  ELSE SubSeq(s, 1, (CHOOSE k \in Places(s, c) : \A m \in Places(s, c) : k <= m) - 1)
AfterLast(s, c) ==
  IF Places(s, c) = {} THEN s
  ELSE SubSeq(s, (CHOOSE k \in Places(s, c) : \A m \in Places(s, c) : k >= m) + 1, Len(s))

\* C14: for a non-empty command, when some argument contains "json" the result
\* is, for the last such argument, the part before its first "." and then after
\* its last "_"; when none does, the result is the first argument.
C14_UniqueIdExtraction ==
  unique_id # Unparsed =>
    unique_id =
      IF JsonArgs(command) # {}
      THEN LET k == CHOOSE x \in JsonArgs(command) : \A m \in JsonArgs(command) : x >= m
           IN AfterLast(BeforeFirst(command[k], "."), "_")
      ELSE command[1]

\* The kinds whose counts go to pool counter n for the run of invocation i.
KindsOf(i, n) ==
  IF n = FloatingPoolName THEN {"floating"}
  ELSE IF n = DatasetPoolName(dataset[i]) THEN {"ql", "r"} ELSE {}
\* What store s holds for pool n and the run of invocation i: the pool counter
\* and the counts of the run's records that exist.
Held(s, i, n) ==
  (IF n \in DOMAIN s THEN PyInt(s[n]) ELSE 0)
    + Sum([k \in Kinds |-> Reserved(s, i, k)], KindsOf(i, n))

\* C15: in every state of an invocation running alone, whatever store call has
\* failed, each pool counter together with the counts still in the run's
\* records is not below what it was when the invocation started.
C15_NoLicenseLost ==
  \A i \in Procs :
    pc[i] # "idle" => \A n \in PoolNames : Held(store, i, n) >= Held(snap[i], i, n)

\* C15's case: the records of a run that had reserved licences are deleted and
\* the invocation has then failed.
C15_WitnessDeletedThenFailed ==
  \E i \in Procs :
    /\ Done(i) /\ raised[i] # "none" /\ "delete" \in ops[i]
    /\ RecordsDeleted(i) /\ \E k \in Kinds : Reserved(snap[i], i, k) > 0

\* C16: when two invocations handle the same run and no store call fails, each
\* pool counter never exceeds its initial value plus what the run had reserved
\* for it: the two together add no more than the run's counts.
C16_NoOverReturn ==
  \A i, j \in Procs :
    (i # j /\ pc[i] # "idle" /\ pc[j] # "idle" /\ SameRun(i, j))
      => \A n \in PoolNames :
           PyInt(store[n]) <= PyInt(initial[n])
                                + Sum([k \in Kinds |-> Reserved(initial, i, k)], KindsOf(i, n))

\* What all runs together had reserved for pool counter n at the start.
AllReserved(n) ==
  Sum([x \in RecordNames |->
         IF x \in DOMAIN initial
            /\ ((n = FloatingPoolName /\ x[4] = "floating")
                \/ (n = DatasetPoolName(x[2]) /\ x[4] # "floating"))
         THEN PyInt(initial[x]) ELSE 0], RecordNames)

\* C17: once a second invocation for a run, delivered after the first one was
\* cut short by a ParameterNotFound or TooManyUpdates, has completed, no pool
\* counter exceeds its initial value plus what had been reserved for it: what
\* the first invocation had merged is not merged again.
C17_NoOverReturnAfterFailure ==
  \A i \in Procs :
    ("redelivered" \in ops[i] /\ Done(i) /\ outcome[i] \in Returns)
      => \A n \in PoolNames : PyInt(store[n]) <= PyInt(initial[n]) + AllReserved(n)

\* C18: with the lock "False" at the start, no store failure and no abort, and
\* every invocation kept running, every invocation eventually ends (it leaves
\* the polling loop), return_licenses returns in each that called it, and when
\* all have ended the lock is "False".
C18_AllReturned ==
  (\A i \in Procs : Done(i)) =>
    /\ store[LockName] = "False"
    /\ \A i \in Procs : "return_licenses" \in ops[i] => outcome[i] \in Returns
C18_Termination ==
  /\ \A i \in Procs : <>Done(i)
  /\ \A i \in Procs : (pc[i] = "poll") ~> (pc[i] # "poll")
  /\ []C18_AllReturned

\* C18's case: an invocation has waited in the polling loop for the other one
\* to release the lock, and both have returned their licences.
C18_WitnessWaitedAndReturned ==
  /\ \A i \in Procs : HasReturned(i)
  /\ \E i \in Procs : "sawBusy" \in ops[i]

====
